---- MODULE Spec2Model ----
(***************************************************************************)
(* Paper-trading bot (src/main.py): the ledger (balance, positions,        *)
(* trades), the market-window tracker (current_market_id,                  *)
(* market_end_time), the feed callback on_message with enter_trade, the    *)
(* ledger operation close_trade, the /reset command, and the feed session  *)
(* (start_ws, connect_ws, on_open, on_close).                              *)
(*                                                                         *)
(* Units.  Prices are in mills (0.851 is 851).  Money is in units of       *)
(* 1/Unit dollar, Unit being a common multiple of the entry prices of the  *)
(* model, so that shares = size / price and pnl = (exit - entry) * shares  *)
(* are exact.  The ledger arithmetic is carried out exactly; the rounding  *)
(* of the parse float(price) is modelled where it decides a comparison     *)
(* (the entry tolerance test).  Time is in whole seconds.                  *)
(***************************************************************************)
EXTENDS Integers, Sequences, FiniteSets, TLC

VARIABLES
  balance,            \* main.py:27
  positions,          \* main.py:28
  trades,             \* main.py:29
  current_market_id,  \* main.py:30
  market_end_time,    \* main.py:31  <<>> is None, <<t>> is the datetime t
  now,                \* datetime.utcnow(), seconds
  pc,                 \* feed thread: the line it is about to execute
  frame,              \* feed thread: locals of the running callback
  cpc,                \* command thread: the line it is about to execute
  outcome,            \* how the running call of the feed thread ended
  entry,              \* the ledger as the running call found it (history variable)
  session             \* feed thread: where it stands in start_ws / connect_ws

ledger == <<balance, positions, trades>>
window == <<current_market_id, market_end_time>>
vars == <<balance, positions, trades, current_market_id, market_end_time,
          now, pc, frame, cpc, outcome, entry, session>>

----------------------------------------------------------------------------
\* Bounds of the model

MaxTrades == 2
MaxOpen == 3

\* Closes at a total loss after which the account is followed no further.
MaxLosses == 20

\* Calls of on_close the stack of the feed thread can hold (the interpreter's
\* recursion limit, in calls of on_close).
RecursionDepth == 2

\* The instants at which the clock is read, in seconds: 239 and 240 are 61
\* and 60 seconds before the boundary 300, 301 is past it.
Instants == {0, 239, 240, 300, 301}

\* Market identifiers the feed reports; "None" is Python's None.
Markets == {"m1", "m2"}

\* Prices a quote level can carry, in mills (best bid below best ask).
AskPrices == {851, 852, 960}
BidPrices == {848, 849}

\* Sides and prices at which the ledger operations are called directly.
Entries == {<<"YES", 851>>, <<"NO", 849>>}
ExitPrices == {740, 960}
Reasons == {"take-profit", "stop-loss"}

\* The ends of the range of a price, 0 and 1.
ExtremePrices == {0, 1000}

\* Money units per dollar: every entry price of the model divides it.
Unit == 849 * 851

----------------------------------------------------------------------------
\* Configuration, main.py:14-21

INITIAL_BALANCE == 100 * Unit
POSITION_SIZE == 5 * Unit
MAX_CONCURRENT_POSITIONS == 2
ENTRY_PRICE == 850
ENTRY_TOLERANCE == 2
STOP_LOSS == 750
TAKE_PROFIT == 950
MIN_SECONDS_TO_RESOLUTION == 60

----------------------------------------------------------------------------
\* float(): the IEEE-754 double nearest to a decimal of mills/1000.
\* A double x is held as <<hi, lo>> with x = (hi * 2^61 + lo) / (1000 * 2^61)
\* and |lo| far below 2^61, so sums and differences are componentwise and
\* the order is lexicographic.

RECURSIVE Pow2Mod1000(_)
Pow2Mod1000(n) == IF n = 0 THEN 1 ELSE (2 * Pow2Mod1000(n - 1)) % 1000

RECURSIVE Pow2(_)
Pow2(n) == IF n = 0 THEN 1 ELSE 2 * Pow2(n - 1)

\* exponent e with ulp 2^-e of the binade holding mills/1000 (mills >= 2)
UlpExp(mills) == 52 + CHOOSE k \in 0..9 : 1000 <= mills * Pow2(k) /\ mills * Pow2(k) < 2000

\* round-to-nearest of mills * 2^e / 1000, as the error 1000 * q - mills * 2^e
RoundErr(mills) ==
  LET r == (mills * Pow2Mod1000(UlpExp(mills))) % 1000
  IN IF r < 500 THEN 0 - r ELSE 1000 - r

Float(mills) == <<mills, Pow2(61 - UlpExp(mills)) * RoundErr(mills)>>

FSub(a, b) == <<a[1] - b[1], a[2] - b[2]>>
FLeq(a, b) == a[1] < b[1] \/ (a[1] = b[1] /\ a[2] <= b[2])
FAbs(a) == IF FLeq(<<0, 0>>, a) THEN a ELSE <<0 - a[1], 0 - a[2]>>

\* main.py:110,112  abs(float(price) - ENTRY_PRICE) <= ENTRY_TOLERANCE
WithinTolerance(mills) ==
  FLeq(FAbs(FSub(Float(mills), Float(ENTRY_PRICE))), Float(ENTRY_TOLERANCE))

----------------------------------------------------------------------------
\* Clock / window tracker

\* the boundary at or before t: the start of the window, not its end
window_start_time(t) == t - (t % 300)

\* main.py:53-60
get_market_end_time(t) ==
  LET seconds == t % 300
  IN IF seconds = 0 THEN t + 300 ELSE t + (300 - seconds)

Max(a, b) == IF a >= b THEN a ELSE b

\* main.py:62-65
seconds_left(end, t) ==
  IF end # <<>> THEN Max(0, end[1] - t) ELSE 300

----------------------------------------------------------------------------
\* Feed messages: a dict with any of the keys market, bids, asks.  A book
\* side is a list of at most one level here (only level 0 is read); a level
\* is <<p>> for {'price': p} and <<>> for a dict without 'price'.

Books(prices) == {<<>>, << <<>> >>} \cup {<< <<p>> >> : p \in prices}

\* what the key 'market' of a message can hold: an identifier or null
MarketValues == Markets \cup {"None"}

Messages ==
  [keys : {{"market"}}, market : MarketValues, bids : {<<>>}, asks : {<<>>}]
  \cup [keys : {{"bids", "asks"}, {"market", "bids", "asks"}},
        market : MarketValues, bids : Books(BidPrices), asks : Books(AskPrices)]

NoFrame == [bids |-> <<>>, asks |-> <<>>, secs |-> 0, side |-> "None", price |-> 0,
            ret |-> "idle", reg |-> 0, pos |-> <<>>, reason |-> "None", pnl |-> 0]

\* main.py:143: the feed thread is started and stands at the call of line 139
\* with no connection made yet
NoSession == [state |-> "L139", depth |-> 0, subscribed |-> "None", live |-> 0,
              unsolicited |-> FALSE]

NoEntry == [balance |-> 0, positions |-> <<>>, trades |-> <<>>]
Snapshot == [balance |-> balance, positions |-> positions, trades |-> trades]

Init ==
  /\ balance = INITIAL_BALANCE
  /\ positions = <<>>
  /\ trades = <<>>
  /\ current_market_id = "None"
  /\ market_end_time = <<>>
  /\ now = 0
  /\ pc = "idle"
  /\ frame = NoFrame
  /\ cpc = "idle"
  /\ outcome = "none"
  /\ entry = NoEntry
  /\ session = NoSession

----------------------------------------------------------------------------
\* Feed thread: on_message, main.py:99-117

HasKey(data, k) == k \in data.keys

\* the gate without its time condition
EntryGateAnyTime(secs, open) == open < MAX_CONCURRENT_POSITIONS

\* main.py:109
EntryGate(secs, open) ==
  secs <= MIN_SECONDS_TO_RESOLUTION /\ open < MAX_CONCURRENT_POSITIONS

\* main.py:110,112  `book and abs(float(book[0]['price']) - ENTRY_PRICE) <= ...`
\* "skip": falsy list or price out of tolerance; "raise": book[0] has no
\* 'price' (KeyError); "enter": the price qualifies.
LevelTest(book) ==
  IF book = <<>> THEN "skip"
  ELSE IF book[1] = <<>> THEN "raise"
  ELSE IF WithinTolerance(book[1][1]) THEN "enter" ELSE "skip"

\* on_message with a rollover that moves the open positions to the new market
on_message_retag(data) ==
  /\ pc = "idle"
  /\ LET rollover == HasKey(data, "market") /\ data.market # current_market_id
         end == IF rollover THEN <<get_market_end_time(now)>> ELSE market_end_time
         quote == HasKey(data, "bids") /\ HasKey(data, "asks")
     IN /\ current_market_id' = IF rollover THEN data.market ELSE current_market_id
        /\ market_end_time' = end
        /\ positions' = IF rollover
                        THEN [i \in 1..Len(positions) |->
                                [positions[i] EXCEPT !.market_id = data.market]]
                        ELSE positions
        /\ IF quote
           THEN /\ frame' = [NoFrame EXCEPT !.bids = data.bids, !.asks = data.asks,
                                            !.secs = seconds_left(end, now)]
                /\ pc' = IF EntryGate(seconds_left(end, now), Len(positions))
                         THEN "L110" ELSE "L115"
                /\ entry' = Snapshot
           ELSE /\ frame' = NoFrame
                /\ pc' = "idle"
                /\ entry' = NoEntry
  /\ UNCHANGED <<balance, trades, now, cpc, outcome>>

\* main.py:101-109: parse, rollover, read the books, evaluate the gate
on_message(data) ==
  /\ pc = "idle"
  /\ LET rollover == HasKey(data, "market") /\ data.market # current_market_id
         end == IF rollover THEN <<get_market_end_time(now)>> ELSE market_end_time
         quote == HasKey(data, "bids") /\ HasKey(data, "asks")
     IN /\ current_market_id' = IF rollover THEN data.market ELSE current_market_id
        /\ market_end_time' = end
        /\ IF quote
           THEN /\ frame' = [NoFrame EXCEPT !.bids = data.bids, !.asks = data.asks,
                                            !.secs = seconds_left(end, now)]
                /\ pc' = IF EntryGate(seconds_left(end, now), Len(positions))
                         THEN "L110" ELSE "L115"
                /\ entry' = Snapshot
           ELSE /\ frame' = NoFrame
                /\ pc' = "idle"
                /\ entry' = NoEntry
  /\ UNCHANGED <<balance, positions, trades, now, cpc, outcome>>

\* main.py:110-111
on_message_ask ==
  /\ pc = "L110"
  /\ LET t == LevelTest(frame.asks)
     IN /\ pc' = CASE t = "enter" -> "L70" [] t = "raise" -> "L119" [] OTHER -> "L112"
        /\ frame' = IF t = "enter"
                    THEN [frame EXCEPT !.side = "YES", !.price = frame.asks[1][1],
                                       !.ret = "L112"]
                    ELSE frame
        /\ outcome' = IF t = "raise" THEN "KeyError" ELSE outcome
  /\ UNCHANGED <<session, balance, positions, trades, current_market_id, market_end_time,
                 now, cpc, entry>>

\* main.py:112-113
on_message_bid ==
  /\ pc = "L112"
  /\ LET t == LevelTest(frame.bids)
     IN /\ pc' = CASE t = "enter" -> "L70" [] t = "raise" -> "L119" [] OTHER -> "L115"
        /\ frame' = IF t = "enter"
                    THEN [frame EXCEPT !.side = "NO", !.price = frame.bids[1][1],
                                       !.ret = "L115"]
                    ELSE frame
        /\ outcome' = IF t = "raise" THEN "KeyError" ELSE outcome
  /\ UNCHANGED <<session, balance, positions, trades, current_market_id, market_end_time,
                 now, cpc, entry>>

\* main.py:114-117: the loop over positions[:] does nothing; the callback
\* returns
on_message_update ==
  /\ pc = "L115"
  /\ pc' = "idle"
  /\ frame' = NoFrame
  /\ outcome' = "none"
  /\ entry' = NoEntry
  /\ UNCHANGED <<session, balance, positions, trades, current_market_id, market_end_time,
                 now, cpc>>

\* main.py:119-120: an exception of on_message is handed to on_error
on_error ==
  /\ pc = "L119"
  /\ pc' = "idle"
  /\ frame' = NoFrame
  /\ outcome' = "none"
  /\ entry' = NoEntry
  /\ UNCHANGED <<session, balance, positions, trades, current_market_id, market_end_time,
                 now, cpc>>

----------------------------------------------------------------------------
\* enter_trade, main.py:68-85

\* main.py:72-82
NewPosition(side, price) ==
  [market_id |-> current_market_id, side |-> side, entry_price |-> price,
   size |-> POSITION_SIZE, shares |-> POSITION_SIZE \div price,
   entry_time |-> now, stop_loss |-> STOP_LOSS, take_profit |-> TAKE_PROFIT,
   current_price |-> price]

\* enter_trade without the test of the balance
enter_trade_unchecked ==
  /\ pc = "L70"
  /\ pc' = "L72"
  /\ UNCHANGED <<session, balance, positions, trades, current_market_id,
                 market_end_time, now, frame, cpc, outcome, entry>>

\* main.py:70-71
enter_trade_check ==
  /\ pc = "L70"
  /\ IF balance < POSITION_SIZE
     THEN /\ pc' = frame.ret
          /\ outcome' = "None"
     ELSE /\ pc' = "L72"
          /\ outcome' = outcome
  /\ UNCHANGED <<session, balance, positions, trades, current_market_id, market_end_time,
                 now, frame, cpc, entry>>

\* main.py:72-83
enter_trade_append ==
  /\ pc = "L72"
  /\ positions' = Append(positions, NewPosition(frame.side, frame.price))
  /\ pc' = "L84"
  /\ UNCHANGED <<session, balance, trades, current_market_id, market_end_time, now, frame,
                 cpc, outcome, entry>>

\* main.py:84, the read of `balance -= POSITION_SIZE`
enter_trade_load ==
  /\ pc = "L84"
  /\ frame' = [frame EXCEPT !.reg = balance]
  /\ pc' = "L84w"
  /\ UNCHANGED <<session, balance, positions, trades, current_market_id, market_end_time,
                 now, cpc, outcome, entry>>

\* main.py:84-85, the write of `balance -= POSITION_SIZE`, and the return
enter_trade_store ==
  /\ pc = "L84w"
  /\ balance' = frame.reg - POSITION_SIZE
  /\ pc' = frame.ret
  /\ frame' = [frame EXCEPT !.reg = 0]
  /\ outcome' = "pos"
  /\ UNCHANGED <<session, positions, trades, current_market_id, market_end_time, now,
                 cpc, entry>>

----------------------------------------------------------------------------
\* close_trade, main.py:87-97

\* the pnl of a YES position, whatever the side
PnlLong(pos, exit_price) == (exit_price - pos.entry_price) * pos.shares

\* main.py:89-92
Pnl(pos, exit_price) ==
  IF pos.side = "YES"
  THEN (exit_price - pos.entry_price) * pos.shares
  ELSE (pos.entry_price - exit_price) * pos.shares

\* main.py:94
Record(pos, exit_price, pnl, reason) ==
  [market_id |-> pos.market_id, side |-> pos.side, entry_price |-> pos.entry_price,
   size |-> pos.size, shares |-> pos.shares, entry_time |-> pos.entry_time,
   stop_loss |-> pos.stop_loss, take_profit |-> pos.take_profit,
   current_price |-> pos.current_price,
   exit_price |-> exit_price, pnl |-> pnl, reason |-> reason]

\* the position a trade record was made from
PositionOf(t) ==
  [market_id |-> t.market_id, side |-> t.side, entry_price |-> t.entry_price,
   size |-> t.size, shares |-> t.shares, entry_time |-> t.entry_time,
   stop_loss |-> t.stop_loss, take_profit |-> t.take_profit,
   current_price |-> t.current_price]

Range(s) == {s[i] : i \in 1..Len(s)}

\* list.remove: drops the first element equal to x
Remove(s, x) ==
  LET i == CHOOSE j \in 1..Len(s) : s[j] = x /\ \A k \in 1..(j - 1) : s[k] # x
  IN SubSeq(s, 1, i - 1) \o SubSeq(s, i + 1, Len(s))

\* main.py:89-92
close_trade_pnl ==
  /\ pc = "L89"
  /\ frame' = [frame EXCEPT !.pnl = Pnl(frame.pos[1], frame.price)]
  /\ pc' = "L93"
  /\ UNCHANGED <<session, balance, positions, trades, current_market_id, market_end_time,
                 now, cpc, outcome, entry>>

\* main.py:93, the read of `balance += pos['size'] + pnl`
close_trade_load ==
  /\ pc = "L93"
  /\ frame' = [frame EXCEPT !.reg = balance]
  /\ pc' = "L93w"
  /\ UNCHANGED <<session, balance, positions, trades, current_market_id, market_end_time,
                 now, cpc, outcome, entry>>

\* main.py:93, the write
close_trade_store ==
  /\ pc = "L93w"
  /\ balance' = frame.reg + frame.pos[1].size + frame.pnl
  /\ pc' = "L94"
  /\ frame' = [frame EXCEPT !.reg = 0]
  /\ UNCHANGED <<session, positions, trades, current_market_id, market_end_time, now,
                 cpc, outcome, entry>>

\* main.py:94-95
close_trade_record ==
  /\ pc = "L94"
  /\ trades' = Append(trades, Record(frame.pos[1], frame.price, frame.pnl, frame.reason))
  /\ pc' = "L96"
  /\ UNCHANGED <<session, balance, positions, current_market_id, market_end_time, now, frame,
                 cpc, outcome, entry>>

\* main.py:96-97: positions.remove(pos) raises ValueError when pos is not in
\* the list
close_trade_remove ==
  /\ pc = "L96"
  /\ IF frame.pos[1] \in Range(positions)
     THEN /\ positions' = Remove(positions, frame.pos[1])
          /\ outcome' = "record"
     ELSE /\ positions' = positions
          /\ outcome' = "ValueError"
  /\ pc' = frame.ret
  /\ UNCHANGED <<session, balance, trades, current_market_id, market_end_time, now, frame,
                 cpc, entry>>

----------------------------------------------------------------------------
\* Command thread: reset, main.py:180-186

\* main.py:183
reset_balance ==
  /\ cpc = "idle"
  /\ balance' = INITIAL_BALANCE
  /\ cpc' = "L184"
  /\ UNCHANGED <<session, positions, trades, current_market_id, market_end_time, now, pc,
                 frame, outcome, entry>>

\* main.py:184
reset_positions ==
  /\ cpc = "L184"
  /\ positions' = <<>>
  /\ cpc' = "L185"
  /\ UNCHANGED <<session, balance, trades, current_market_id, market_end_time, now, pc,
                 frame, outcome, entry>>

\* a reset that keeps the trade history
reset_keep_history ==
  /\ cpc = "L185"
  /\ cpc' = "idle"
  /\ UNCHANGED <<session, balance, positions, trades, current_market_id,
                 market_end_time, now, pc, frame, outcome, entry>>

\* main.py:185-186
reset_trades ==
  /\ cpc = "L185"
  /\ trades' = <<>>
  /\ cpc' = "idle"
  /\ UNCHANGED <<session, balance, positions, current_market_id, market_end_time, now, pc,
                 frame, outcome, entry>>

----------------------------------------------------------------------------
\* The clock: read again at a later instant, between two callbacks

Tick ==
  /\ pc = "idle"
  /\ \E t \in Instants : t > now /\ now' = t
  /\ UNCHANGED <<session, balance, positions, trades, current_market_id, market_end_time,
                 pc, frame, cpc, outcome, entry>>

----------------------------------------------------------------------------
\* Feed session, main.py:122-141.  session.state is the line the feed thread
\* stands at outside on_message: "L139" start_ws about to call connect_ws,
\* "L134" run_forever connecting, "L127" connected and on_open about to run,
\* "open" run_forever waiting for messages, "L123" on_close sleeping,
\* "L124" on_close about to call connect_ws, "L141" start_ws sleeping after an
\* exception.  session.depth counts the calls of on_close that have not
\* returned (each one holds a call of connect_ws), session.live the
\* connections that are open, session.subscribed the market of the last
\* subscribe request sent on the open connection; session.unsolicited records
\* that the feed has delivered a message of a market that was not subscribed
\* (history).

\* main.py:136-139
start_ws ==
  /\ session.state = "L139"
  /\ session' = [session EXCEPT !.state = "L134"]
  /\ UNCHANGED <<balance, positions, trades, current_market_id, market_end_time,
                 now, pc, frame, cpc, outcome, entry>>

\* main.py:134: run_forever has connected
ws_connected ==
  /\ session.state = "L134"
  /\ session' = [session EXCEPT !.state = "L127", !.live = @ + 1,
                                !.subscribed = "None"]
  /\ UNCHANGED <<balance, positions, trades, current_market_id, market_end_time,
                 now, pc, frame, cpc, outcome, entry>>

\* main.py:134: run_forever could not connect; it calls on_error (main.py:119,
\* nothing) and on_close
ws_failed ==
  /\ session.state = "L134"
  /\ session' = [session EXCEPT !.state = "L123"]
  /\ UNCHANGED <<balance, positions, trades, current_market_id, market_end_time,
                 now, pc, frame, cpc, outcome, entry>>

\* main.py:126-128
on_open ==
  /\ session.state = "L127"
  /\ session' = [session EXCEPT !.state = "open",
                                !.subscribed = IF current_market_id # "None"
                                               THEN current_market_id ELSE @]
  /\ UNCHANGED <<balance, positions, trades, current_market_id, market_end_time,
                 now, pc, frame, cpc, outcome, entry>>

\* main.py:134,99: run_forever receives a message of the market data.market
\* and calls on_message
ws_message(data) ==
  /\ session.state = "open"
  /\ on_message(data)
  /\ session' = [session EXCEPT !.unsolicited = @ \/ data.market # session.subscribed]

\* main.py:134: the connection is lost between two callbacks; run_forever
\* calls on_close
ws_dropped ==
  /\ session.state = "open"
  /\ pc = "idle"
  /\ session' = [session EXCEPT !.state = "L123", !.live = @ - 1,
                                !.subscribed = "None"]
  /\ UNCHANGED <<balance, positions, trades, current_market_id, market_end_time,
                 now, pc, frame, cpc, outcome, entry>>

\* main.py:123
on_close ==
  /\ session.state = "L123"
  /\ session' = [session EXCEPT !.state = "L124"]
  /\ UNCHANGED <<balance, positions, trades, current_market_id, market_end_time,
                 now, pc, frame, cpc, outcome, entry>>

\* main.py:124,130-134: on_close calls connect_ws, one call deeper on the
\* stack of the feed thread
on_close_connect ==
  /\ session.state = "L124"
  /\ session.depth < RecursionDepth
  /\ session' = [session EXCEPT !.state = "L134", !.depth = @ + 1]
  /\ UNCHANGED <<balance, positions, trades, current_market_id, market_end_time,
                 now, pc, frame, cpc, outcome, entry>>

\* main.py:124,138-141: the stack is full, the call raises RecursionError.
\* The exception ends the calls on the stack; it is caught either by a
\* run_forever on the way (then the calls below it return and start_ws loops
\* at once) or by the except clause of start_ws.
on_close_overflow ==
  /\ session.state = "L124"
  /\ session.depth = RecursionDepth
  /\ \E s \in {"L139", "L141"} : session' = [session EXCEPT !.state = s, !.depth = 0]
  /\ UNCHANGED <<balance, positions, trades, current_market_id, market_end_time,
                 now, pc, frame, cpc, outcome, entry>>

\* start_ws without its loop: after the exception the thread ends
start_ws_once ==
  /\ session.state = "L141"
  /\ session' = [session EXCEPT !.state = "end"]
  /\ UNCHANGED <<balance, positions, trades, current_market_id, market_end_time,
                 now, pc, frame, cpc, outcome, entry>>

\* main.py:140-141, and back to the head of the loop
start_ws_except ==
  /\ session.state = "L141"
  /\ session' = [session EXCEPT !.state = "L139"]
  /\ UNCHANGED <<balance, positions, trades, current_market_id, market_end_time,
                 now, pc, frame, cpc, outcome, entry>>

----------------------------------------------------------------------------
\* Direct calls of the ledger operations (any caller holding a position)

call_enter_trade(side, price) ==
  /\ pc = "idle"
  /\ Len(positions) < MaxOpen
  /\ frame' = [NoFrame EXCEPT !.side = side, !.price = price, !.ret = "ret"]
  /\ pc' = "L70"
  /\ entry' = Snapshot
  /\ UNCHANGED <<session, balance, positions, trades, current_market_id, market_end_time,
                 now, cpc, outcome>>

\* positions a caller may hold: the open ones and those already closed
Held == Range(positions) \cup {PositionOf(t) : t \in Range(trades)}

call_close_trade(pos, exit_price, reason) ==
  /\ pc = "idle"
  /\ frame' = [NoFrame EXCEPT !.pos = <<pos>>, !.price = exit_price,
                              !.reason = reason, !.ret = "ret"]
  /\ pc' = "L89"
  /\ entry' = Snapshot
  /\ UNCHANGED <<session, balance, positions, trades, current_market_id, market_end_time,
                 now, cpc, outcome>>

\* the call has returned or raised: the caller goes on
call_return ==
  /\ pc = "ret"
  /\ pc' = "idle"
  /\ frame' = NoFrame
  /\ outcome' = "none"
  /\ entry' = NoEntry
  /\ UNCHANGED <<session, balance, positions, trades, current_market_id, market_end_time,
                 now, cpc>>

----------------------------------------------------------------------------
\* Specifications

FeedTurn == cpc = "idle"
CommandTurn == pc = "idle"

\* The program with every callback and every command run to completion, one
\* at a time: the schedules of the two threads in which no handler is
\* interrupted by the other thread.
Next ==
  \/ FeedTurn /\ \E data \in Messages : on_message(data) /\ UNCHANGED session
  \/ FeedTurn /\ on_message_ask
  \/ FeedTurn /\ on_message_bid
  \/ FeedTurn /\ on_message_update
  \/ FeedTurn /\ on_error
  \/ FeedTurn /\ enter_trade_check
  \/ FeedTurn /\ enter_trade_append
  \/ FeedTurn /\ enter_trade_load
  \/ FeedTurn /\ enter_trade_store
  \/ CommandTurn /\ reset_balance
  \/ CommandTurn /\ reset_positions
  \/ CommandTurn /\ reset_trades
  \/ FeedTurn /\ Tick

Spec == Init /\ [][Next]_vars

\* Well-formed messages: the market is an identifier and every book side
\* present carries a priced level.
QuoteMessages ==
  {m \in Messages : /\ m.market \in Markets
                    /\ "bids" \in m.keys => m.bids \notin {<<>>, << <<>> >>}
                                           /\ m.asks \notin {<<>>, << <<>> >>}}

\* The program as it runs: no lock guards the globals, the feed thread and
\* the command thread interleave at every step (on well-formed messages).
NextRace ==
  \/ \E data \in QuoteMessages : on_message(data) /\ UNCHANGED session
  \/ on_message_ask
  \/ on_message_bid
  \/ on_message_update
  \/ enter_trade_check
  \/ enter_trade_append
  \/ enter_trade_load
  \/ enter_trade_store
  \/ reset_balance
  \/ reset_positions
  \/ reset_trades
  \/ Tick

SpecRace == Init /\ [][NextRace]_vars

\* The ledger operations enter_trade, close_trade and reset called one at a
\* time, in any order, by a caller that holds the positions it was given.
\* All calls are made at one reading of the clock.
NextLedger ==
  \/ FeedTurn /\ \E e \in Entries : call_enter_trade(e[1], e[2])
  \/ FeedTurn /\ Len(trades) < MaxTrades
              /\ \E pos \in Held, x \in ExitPrices, reason \in Reasons :
                   call_close_trade(pos, x, reason)
  \/ FeedTurn /\ call_return
  \/ FeedTurn /\ enter_trade_check
  \/ FeedTurn /\ enter_trade_append
  \/ FeedTurn /\ enter_trade_load
  \/ FeedTurn /\ enter_trade_store
  \/ FeedTurn /\ close_trade_pnl
  \/ FeedTurn /\ close_trade_load
  \/ FeedTurn /\ close_trade_store
  \/ FeedTurn /\ close_trade_record
  \/ FeedTurn /\ close_trade_remove
  \/ CommandTurn /\ reset_balance
  \/ CommandTurn /\ reset_positions
  \/ CommandTurn /\ reset_trades

SpecLedger == Init /\ [][NextLedger]_vars

\* The ledger operations called one at a time on an account that is run
\* down: closes at the two ends of the price range, and, beyond MaxTrades
\* records, closes of YES positions at the price 0, which return nothing.
NextCash ==
  \/ FeedTurn /\ \E e \in Entries : call_enter_trade(e[1], e[2])
  \/ FeedTurn /\ Len(trades) < MaxTrades
              /\ \E pos \in Held, x \in ExtremePrices :
                   call_close_trade(pos, x, "market resolved")
  \/ FeedTurn /\ Len(trades) < MaxLosses
              /\ \E pos \in Range(positions) :
                   pos.side = "YES" /\ call_close_trade(pos, 0, "market resolved")
  \/ FeedTurn /\ call_return
  \/ FeedTurn /\ enter_trade_check
  \/ FeedTurn /\ enter_trade_append
  \/ FeedTurn /\ enter_trade_load
  \/ FeedTurn /\ enter_trade_store
  \/ FeedTurn /\ close_trade_pnl
  \/ FeedTurn /\ close_trade_load
  \/ FeedTurn /\ close_trade_store
  \/ FeedTurn /\ close_trade_record
  \/ FeedTurn /\ close_trade_remove
  \/ CommandTurn /\ reset_balance
  \/ CommandTurn /\ reset_positions
  \/ CommandTurn /\ reset_trades

SpecCash == Init /\ [][NextCash]_vars

\* Rollover notices: messages that carry a market identifier and no book.
MarketMessages == {m \in Messages : m.keys = {"market"}}

\* The feed session: connecting, subscribing, losing the connection and
\* reconnecting, with rollover notices delivered while the connection is open.
NextFeed ==
  \/ start_ws
  \/ ws_connected
  \/ ws_failed
  \/ on_open
  \/ \E data \in MarketMessages : ws_message(data)
  \/ ws_dropped
  \/ on_close
  \/ on_close_connect
  \/ on_close_overflow
  \/ start_ws_except
  \/ Tick

\* the steps the feed thread takes by itself: it is a thread of its own
\* (main.py:143), time.sleep returns, and a callback that is due is called
FeedThread ==
  start_ws \/ on_open \/ on_close \/ on_close_connect \/ on_close_overflow
    \/ start_ws_except

SpecFeed == Init /\ [][NextFeed]_vars /\ WF_vars(FeedThread)

\* The feed session with a feed that accepts connections: of the attempts
\* made again and again, one succeeds.
SpecFeedAccepting == SpecFeed /\ SF_vars(ws_connected)

----------------------------------------------------------------------------
\* Quantities the claims speak of

RECURSIVE SumSize(_)
SumSize(ps) == IF ps = <<>> THEN 0 ELSE ps[1].size + SumSize(Tail(ps))

RECURSIVE SumPnl(_)
SumPnl(ts) == IF ts = <<>> THEN 0 ELSE ts[1].pnl + SumPnl(Tail(ts))

Conserved == balance = INITIAL_BALANCE - SumSize(positions) + SumPnl(trades)

Quiescent == pc \in {"idle", "ret"} /\ cpc = "idle"

\* the feed thread is inside on_message, past the gate of line 109
InQuote == pc \in {"L110", "L112", "L115", "L70", "L72", "L84", "L84w", "L119"}

\* the positions opened since the running call began
Opened == SubSeq(positions, Len(entry.positions) + 1, Len(positions))

\* C1: after every ledger operation (open, close, reset, in any order),
\* balance = initial balance - sum of the sizes of the open positions
\* + sum of the pnl of the trade records.
C1_BalanceConservation == Quiescent => Conserved

\* C2: the number of open positions never exceeds MAX_CONCURRENT_POSITIONS,
\* in no state, the states inside the processing of one quote included.
C2_ConcurrencyCap == Len(positions) <= MAX_CONCURRENT_POSITIONS

\* C3: enter_trade is rejected exactly when the cash is below the position
\* size or the open positions already number MAX_CONCURRENT_POSITIONS; a
\* rejected open changes nothing of the ledger, an accepted one appends
\* exactly one position and debits exactly the position size.
C3_OpenRejectedExactly ==
  [][/\ pc = "L70" =>
          /\ (pc' = frame.ret) <=> (\/ balance < POSITION_SIZE
                                    \/ Len(positions) >= MAX_CONCURRENT_POSITIONS)
          /\ ledger' = ledger
     /\ pc = "L72" => /\ Len(positions') = Len(positions) + 1
                      /\ SubSeq(positions', 1, Len(positions)) = positions
                      /\ balance' = balance /\ trades' = trades
     /\ pc = "L84w" => /\ balance' = balance - POSITION_SIZE
                       /\ positions' = positions /\ trades' = trades]_vars

\* C4: close_trade of a position that is not open ends in an error and
\* leaves balance, positions and trades as they were before the call.
C4_CloseOfUnknownPosition ==
  (pc = "ret" /\ frame.pos # <<>> /\ frame.pos[1] \notin Range(entry.positions))
    => /\ outcome = "ValueError"
       /\ balance = entry.balance
       /\ positions = entry.positions
       /\ trades = entry.trades

\* C5: with the feed thread and the command thread interleaving at any
\* point, whenever both are between operations the balance is debited only
\* for positions that are in the ledger (balance conservation).
C5_AtomicUnderInterleaving == (pc = "idle" /\ cpc = "idle") => Conserved

Priced(book) == book # <<>> /\ book[1] # <<>>

\* the price of a quote on a position's side: ask for YES, bid for NO
SidePrice(pos, asks, bids) == IF pos.side = "YES" THEN asks[1][1] ELSE bids[1][1]

TakeProfitReached(pos, price) ==
  IF pos.side = "YES" THEN price >= pos.take_profit ELSE price <= 1000 - pos.take_profit

StopLossReached(pos, price) ==
  IF pos.side = "YES" THEN price <= pos.stop_loss ELSE price >= 1000 - pos.stop_loss

ExitReason(pos, price) ==
  IF TakeProfitReached(pos, price) THEN "take-profit"
  ELSE IF StopLossReached(pos, price) THEN "stop-loss" ELSE "none"

\* C6: when a quote with a best bid and a best ask has been fully processed,
\* no position is left open whose side price in that quote reached its
\* take-profit or stop-loss threshold: each such position is in the history
\* with that reason.
C6_ThresholdExits ==
  [][(pc = "L115" /\ pc' = "idle" /\ Priced(frame.asks) /\ Priced(frame.bids)) =>
       /\ \A i \in 1..Len(positions') :
            ExitReason(positions'[i], SidePrice(positions'[i], frame.asks, frame.bids)) = "none"
       /\ \A i \in 1..Len(positions) :
            LET r == ExitReason(positions[i], SidePrice(positions[i], frame.asks, frame.bids))
            IN r # "none" =>
                 \E j \in 1..Len(trades') : /\ PositionOf(trades'[j]) = positions[i]
                                            /\ trades'[j].reason = r]_vars

\* C7: once a quote has been processed with secondsRemaining = 0 no position
\* is left open (each was closed with reason "market resolved" at its last
\* observed price), and after a rollover no open position carries another
\* market identifier than the tracked one.
C7_ForcedResolution ==
  [][/\ (pc = "L115" /\ pc' = "idle" /\ frame.secs = 0) =>
          /\ positions' = <<>>
          /\ \A i \in 1..Len(positions) :
               \E j \in 1..Len(trades') : /\ PositionOf(trades'[j]) = positions[i]
                                          /\ trades'[j].reason = "market resolved"
                                          /\ trades'[j].exit_price = positions[i].current_price
     /\ current_market_id' # current_market_id =>
          \A i \in 1..Len(positions') : positions'[i].market_id = current_market_id']_vars

\* C8: while a quote is processed the ledger differs from the ledger the
\* quote found only if secondsRemaining of the tracked window, at the
\* evaluation of the quote, is at most MIN_SECONDS_TO_RESOLUTION and the open
\* positions it found number less than MAX_CONCURRENT_POSITIONS.
C8_TimeWindowedEligibility ==
  (InQuote /\ <<balance, positions, trades>>
                # <<entry.balance, entry.positions, entry.trades>>)
    => /\ seconds_left(market_end_time, now) <= MIN_SECONDS_TO_RESOLUTION
       /\ frame.secs = seconds_left(market_end_time, now)
       /\ Len(entry.positions) < MAX_CONCURRENT_POSITIONS

\* a quote evaluated exactly MIN_SECONDS_TO_RESOLUTION before the deadline
\* has opened a position
C8_Witness ==
  /\ pc = "L115"
  /\ Len(positions) = Len(entry.positions) + 1
  /\ seconds_left(market_end_time, now) = MIN_SECONDS_TO_RESOLUTION

\* within entryTolerance of the target entry price, in decimal
Near(price) ==
  price - ENTRY_PRICE <= ENTRY_TOLERANCE /\ ENTRY_PRICE - price <= ENTRY_TOLERANCE

OpenedAt(side, price) ==
  \E i \in 1..Len(Opened) : Opened[i].side = side /\ Opened[i].entry_price = price

\* C9: every open position was entered within ENTRY_TOLERANCE of
\* ENTRY_PRICE, a YES position at the best ask and a NO position at the best
\* bid of its quote; and a quote inside the entry window, below the cap, with
\* cash for the stake, opens a YES position at its best ask when that is
\* within tolerance and a NO position at its best bid when that is within
\* tolerance, each independently of the other.
C9_EntryPriceRule ==
  /\ \A i \in 1..Len(positions) : Near(positions[i].entry_price)
  /\ pc = "L115" =>
       LET eligible == /\ frame.secs <= MIN_SECONDS_TO_RESOLUTION
                       /\ Len(entry.positions) < MAX_CONCURRENT_POSITIONS
           yes == /\ eligible /\ Priced(frame.asks) /\ Near(frame.asks[1][1])
                  /\ entry.balance >= POSITION_SIZE
           no == /\ eligible /\ Priced(frame.bids) /\ Near(frame.bids[1][1])
                 /\ entry.balance - (IF yes THEN POSITION_SIZE ELSE 0) >= POSITION_SIZE
       IN /\ \A i \in 1..Len(Opened) :
               IF Opened[i].side = "YES"
               THEN Priced(frame.asks) /\ Opened[i].entry_price = frame.asks[1][1]
               ELSE Priced(frame.bids) /\ Opened[i].entry_price = frame.bids[1][1]
          /\ yes => OpenedAt("YES", frame.asks[1][1])
          /\ no => OpenedAt("NO", frame.bids[1][1])

\* C10: when the best ask and the best bid of one quote both qualify, the
\* YES position is opened before the NO position; and when only one more
\* position can be admitted (one free slot, or cash for one stake only) the
\* YES position is opened and the NO position is not.
C10_EntryOrdering ==
  (/\ pc = "L115"
   /\ EntryGate(frame.secs, Len(entry.positions))
   /\ LevelTest(frame.asks) = "enter" /\ LevelTest(frame.bids) = "enter"
   /\ entry.balance >= POSITION_SIZE)
    => /\ Len(Opened) = 2 => Opened[1].side = "YES" /\ Opened[2].side = "NO"
       /\ (\/ Len(entry.positions) = MAX_CONCURRENT_POSITIONS - 1
           \/ entry.balance < 2 * POSITION_SIZE)
            => Len(Opened) = 1 /\ Opened[1].side = "YES"

\* C11: a step that replaces the tracked market identifier leaves a deadline
\* with secondsRemaining greater than 0 and at most 300 at that moment,
\* whatever the deadline of the previous window was; a step that keeps the
\* tracked identifier (a message repeating it included) keeps the deadline.
C11_DeadlineResetOnRollover ==
  [][/\ current_market_id' # current_market_id =>
          /\ market_end_time' # <<>>
          /\ seconds_left(market_end_time', now') > 0
          /\ seconds_left(market_end_time', now') <= 300
          /\ market_end_time'[1] - now' = seconds_left(market_end_time', now')
     /\ current_market_id' = current_market_id => market_end_time' = market_end_time]_vars

\* a rollover after the deadline of the previous window had passed: a
\* position of market m1 was opened in the window ending at 300, m2 is
\* tracked with the deadline 600
C11_Witness ==
  /\ current_market_id = "m2"
  /\ market_end_time = <<600>>
  /\ \E i \in 1..Len(positions) : positions[i].market_id = "m1"

\* the ledger of a fresh account
ResetLedger == <<INITIAL_BALANCE, <<>>, <<>>>>

\* C12: when reset returns, whatever ledger it was called on, the balance is
\* the initial balance, no position is open and the history is empty (no
\* stake credited, no record appended); a reset called on the ledger of a
\* fresh account leaves that ledger at every step, so a second reset in a
\* row changes nothing.
C12_HardReset ==
  [][/\ (cpc = "L185" /\ cpc' = "idle") => <<balance', positions', trades'>> = ResetLedger
     /\ (cpc' # cpc /\ ledger = ResetLedger) => <<balance', positions', trades'>> = ResetLedger
     /\ cpc' # cpc => /\ balance' \in {balance, INITIAL_BALANCE}
                      /\ trades' \in {trades, <<>>}]_vars

\* a reset at work on a ledger with a closed trade: the balance and the
\* positions are reset, the history is about to be
C12_Witness ==
  /\ cpc = "L185"
  /\ trades # <<>>
  /\ balance = INITIAL_BALANCE
  /\ positions = <<>>

\* C13: when the processing of a message ends in an exception (a level of
\* the quote lacks its price), the balance, the open positions and the trade
\* history are those the message found.
C13_MalformedMessageDropped ==
  pc = "L119" => /\ balance = entry.balance
                 /\ positions = entry.positions
                 /\ trades = entry.trades

\* states of the feed session: no connection and none being made; a
\* connection being made
Disconnected == session.state \in {"L123", "L124", "L141", "L139"}
Connecting == session.state = "L134"

\* C14: at most one feed connection is open at any time, and whenever the
\* session is disconnected (after a lost connection, a failed attempt or an
\* exception, however many came before) a new connection attempt is
\* eventually made.
C14_UnconditionalReconnect ==
  [](session.live <= 1) /\ (Disconnected ~> Connecting)

\* a connection attempt made from the loop of start_ws after a market has been
\* received: connections were open and lost before, and the stack of nested
\* on_close calls has overflowed and been unwound
C14_Witness ==
  /\ Connecting
  /\ session.depth = 0
  /\ current_market_id # "None"

\* a call of close_trade has run to its end; its record is the last one
Closed == pc = "ret" /\ frame.pos # <<>> /\ Len(trades) = Len(entry.trades) + 1

\* C15: the record of a close carries pnl = (x - p) * size / p for a YES
\* position and (p - x) * size / p for a NO position (p entry price, x exit
\* price, size / p the shares), hence pnl > 0 for YES closed above and NO
\* closed below the entry price, pnl < 0 for YES closed below and NO closed
\* above it; and the close has credited size + pnl to the balance.
C15_PnlSign ==
  Closed =>
    LET t == trades[Len(trades)]
        p == t.entry_price
        x == t.exit_price
    IN /\ t.shares * p = t.size
       /\ t.side = "YES" => /\ t.pnl = (x - p) * t.shares
                            /\ x > p => t.pnl > 0
                            /\ x < p => t.pnl < 0
       /\ t.side = "NO" => /\ t.pnl = (p - x) * t.shares
                           /\ x < p => t.pnl > 0
                           /\ x > p => t.pnl < 0
       /\ balance = entry.balance + t.size + t.pnl

\* a NO position has been closed below its entry price
C15_Witness ==
  /\ Closed
  /\ trades[Len(trades)].side = "NO"
  /\ trades[Len(trades)].exit_price < trades[Len(trades)].entry_price
  /\ balance > entry.balance + trades[Len(trades)].size

\* C16: while the feed connection is open, the market of the last subscribe
\* request sent on it is the tracked market (none sent while none is
\* tracked): the request is sent on connect and again after every rollover.
C16_SubscriptionFollowsMarket ==
  session.state = "open" => session.subscribed = current_market_id

\* a subscribe request has been sent on the open connection
Subscribed == session.state = "open" /\ session.subscribed # "None"

\* C17: from process start, with the feed thread scheduled fairly and a feed
\* that accepts connections and delivers messages of subscribed markets only,
\* the session eventually is Subscribed (a market identifier is known and a
\* subscribe request has been sent for it): in every run either the feed at
\* some time delivers a message of a market that is not subscribed, or the
\* session at some time is Subscribed.
C17_ProgressToSubscribed == <>(session.unsolicited \/ Subscribed)

C19_DeadlineIffMarket ==
  /\ market_end_time = <<>> <=> current_market_id = "None"
  /\ market_end_time = <<>> => seconds_left(market_end_time, now) = 300
  /\ (InQuote /\ current_market_id = "None") => frame.secs = 300
  /\ current_market_id = "None" => positions = <<>>
  /\ \A i \in 1..Len(positions) : positions[i].market_id # "None"

\* C20: the balance is never negative; the debit of an open finds at least
\* the position size in the balance, and the credit of a close (size + pnl,
\* at any exit price from 0 to 1) is never negative.
C20_CashNeverNegative ==
  /\ [](balance >= 0)
  /\ [][/\ pc = "L84w" => balance >= POSITION_SIZE /\ balance' = balance - POSITION_SIZE
        /\ pc = "L93w" => /\ frame.pos[1].size + frame.pnl >= 0
                          /\ balance' = balance + frame.pos[1].size + frame.pnl]_vars

\* the account has been run down to nothing and an open has been rejected
C20_Witness ==
  /\ pc = "ret"
  /\ outcome = "None"
  /\ balance = 0

====
